---- MODULE Spec2Model ----
(***************************************************************************)
(* Broad-phase collision detection: the AABB overlap predicate, the        *)
(* brute-force detector and the uniform-grid detector, driven by a caller  *)
(* that owns one detector (README gameStep) or by the benchmark loop that  *)
(* owns both (runDemo).  JavaScript numbers are modelled by integers, so   *)
(* Math.floor(a / b) is a \div b and Math.ceil(a / b) is -((-a) \div b).   *)
(***************************************************************************)
EXTENDS Integers, Sequences, FiniteSets, TLC

VARIABLES
  pc,           \* the caller: "app", a demo loop position, "aabb", "caller"/"edited", "web"
  entities,     \* the caller's entity array
  bruteForce,   \* fields of the BruteForceBroadPhase object
  spatialGrid,  \* fields of the SpatialGridBroadPhase object
  gridError,    \* message of the Error thrown by the grid constructor
  bfLife,       \* "none" | "new" | "updated"
  gridLife,     \* "none" | "new" | "updated"
  bfPairs,      \* pairs returned by the brute-force queryPairs since its last update
  gridPairs,    \* pairs returned by the grid queryPairs since its last update
  bfQueries,    \* queryPairs calls on the brute-force detector since its last update
  gridQueries,  \* queryPairs calls on the grid detector since its last update
  bfChecks,     \* aabbIntersects invocations made by the last brute-force queryPairs
  gridChecks,   \* aabbIntersects invocations made by the last grid queryPairs
  boxA,         \* first argument of a direct aabbIntersects call
  boxB,         \* second argument of a direct aabbIntersects call
  intersects,   \* <<its return value>>, <<>> before the call
  gridOptions,  \* <<the options handed to the grid constructor>>, <<>> before the call
  bruteForceFrameCounter,  \* web: frames since the last brute-force run
  bruteForceTests,         \* web: collisionTests read after the last brute-force run
  gridTests,               \* web: collisionTests read after the last grid run
  collisionPairs,          \* web: pairs of the last grid queryPairs
  frames,       \* web: updateSimulation calls made so far
  calls,        \* web: detector methods called by the last handler, in order
  created       \* web: the entities as createEntities last made them

\* State of the web simulation (web/main.ts), untouched by every other caller.
webVars == <<bruteForceFrameCounter, bruteForceTests, gridTests, collisionPairs,
             frames, calls, created>>

vars == <<pc, entities, bruteForce, spatialGrid, gridError, bfLife, gridLife,
          bfPairs, gridPairs, bfQueries, gridQueries, bfChecks, gridChecks,
          boxA, boxB, intersects, gridOptions, webVars>>

(***************************************************************************)
(* Bounds                                                                  *)
(***************************************************************************)
MaxEntities == 3
MaxQueries == 2
MaxCoord == 2

(***************************************************************************)
(* Data model                                                              *)
(***************************************************************************)
AABB(x1, y1, x2, y2) == [min |-> [x |-> x1, y |-> y1], max |-> [x |-> x2, y |-> y2]]

Entity(i, box) == [id |-> i, aabb |-> box]

NumberId(n) == [kind |-> "number", value |-> n]

StringId(s) == [kind |-> "string", value |-> s]

Digits == <<"0", "1", "2", "3", "4", "5", "6", "7", "8", "9">>

RECURSIVE NumberToString(_)
NumberToString(n) ==
  IF n < 10 THEN <<Digits[n + 1]>>
  ELSE NumberToString(n \div 10) \o <<Digits[(n % 10) + 1]>>

\* `${id}`: a number is formatted in decimal, a string is used as it is.
IdToString(i) == IF i.kind = "number" THEN NumberToString(i.value) ELSE i.value

Range(s) == {s[k] : k \in 1..Len(s)}

Max(p, q) == IF p > q THEN p ELSE q

Min(p, q) == IF p < q THEN p ELSE q

(***************************************************************************)
(* aabb.ts                                                                 *)
(***************************************************************************)
\* Mutation: the Y-axis separation test is left out.
aabbIntersectsXOnly(a, b) ==
  IF a.max.x < b.min.x \/ b.max.x < a.min.x THEN FALSE
  ELSE TRUE

\* Mutation: touching boxes count as separated.
aabbIntersectsStrict(a, b) ==
  IF a.max.x <= b.min.x \/ b.max.x <= a.min.x THEN FALSE
  ELSE IF a.max.y <= b.min.y \/ b.max.y <= a.min.y THEN FALSE
  ELSE TRUE

\* Mutation: only the case of a lying before b is tested on each axis.
aabbIntersectsOneSided(a, b) ==
  IF a.max.x < b.min.x THEN FALSE
  ELSE IF a.max.y < b.min.y THEN FALSE
  ELSE TRUE

aabbIntersects(a, b) ==
  IF a.max.x < b.min.x \/ b.max.x < a.min.x THEN FALSE
  ELSE IF a.max.y < b.min.y \/ b.max.y < a.min.y THEN FALSE
  ELSE TRUE

(***************************************************************************)
(* brute-force.ts                                                          *)
(***************************************************************************)
NewBruteForce == [entities |-> <<>>, collisionTests |-> 0]

\* Mutation: update also resets the test counter.
BruteForceUpdateResetting(bf, es) == [bf EXCEPT !.entities = es, !.collisionTests = 0]

BruteForceUpdate(bf, es) == [bf EXCEPT !.entities = es]

\* Mutation: the counter is not reset at the start of queryPairs.
BruteForceQueryStartKeep(bf) == [pairs |-> <<>>, tests |-> bf.collisionTests, checks |-> 0]

\* Locals of one queryPairs call; checks counts the aabbIntersects invocations.
BruteForceQueryStart(bf) == [pairs |-> <<>>, tests |-> 0, checks |-> 0]

\* Mutation: the inner loop starts at i instead of i + 1.
BruteForceInnerStartSelf(i) == i

BruteForceInnerStart(i) == i + 1

\* Mutation: the counter is incremented only when the boxes intersect.
BruteForceBodyCountHits(st, entityA, entityB) ==
  LET hit == aabbIntersects(entityA.aabb, entityB.aabb)
  IN [pairs  |-> IF hit THEN Append(st.pairs, <<entityA, entityB>>) ELSE st.pairs,
      tests  |-> IF hit THEN st.tests + 1 ELSE st.tests,
      checks |-> st.checks + 1]

\* Mutation: an intersecting pair is reported with the later entity first.
BruteForceBodySwapped(st, entityA, entityB) ==
  LET hit == aabbIntersects(entityA.aabb, entityB.aabb)
  IN [pairs  |-> IF hit THEN Append(st.pairs, <<entityB, entityA>>) ELSE st.pairs,
      tests  |-> st.tests + 1,
      checks |-> st.checks + 1]

BruteForceBody(st, entityA, entityB) ==
  LET hit == aabbIntersects(entityA.aabb, entityB.aabb)
  IN [pairs  |-> IF hit THEN Append(st.pairs, <<entityA, entityB>>) ELSE st.pairs,
      tests  |-> st.tests + 1,
      checks |-> st.checks + 1]

RECURSIVE BruteForceLoop(_, _, _, _)
BruteForceLoop(es, i, j, st) ==
  IF i > Len(es) THEN st
  ELSE IF j > Len(es) THEN BruteForceLoop(es, i + 1, BruteForceInnerStart(i + 1), st)
  ELSE BruteForceLoop(es, i, j + 1, BruteForceBody(st, es[i], es[j]))

BruteForceQueryPairs(bf) ==
  BruteForceLoop(bf.entities, 1, BruteForceInnerStart(1), BruteForceQueryStart(bf))

(***************************************************************************)
(* spatial-grid.ts                                                         *)
(***************************************************************************)
FieldInitializers == [grid |-> <<>>, collisionTests |-> 0]

Nullish(options, field, default) ==
  IF field \in DOMAIN options THEN options[field] ELSE default

\* Mutation: a cell size of 0 is accepted.
CellSizeInvalidNegative(options) == options.cellSize < 0

CellSizeInvalid(options) == options.cellSize <= 0

ValidationError(options) ==
  IF CellSizeInvalid(options) THEN "cellSize must be greater than 0"
  ELSE IF options.maxX <= Nullish(options, "minX", 0) THEN "maxX must be greater than minX"
  ELSE IF options.maxY <= Nullish(options, "minY", 0) THEN "maxY must be greater than minY"
  ELSE "none"

CeilDiv(p, q) == -((-p) \div q)

EmptyGrid(numCols, numRows) ==
  [col \in 0..(numCols - 1) |-> [row \in 0..(numRows - 1) |-> <<>>]]

\* The object and the thrown message ("none" when the constructor returns).
NewSpatialGrid(options) ==
  LET err == ValidationError(options)
      mnX == Nullish(options, "minX", 0)
      mnY == Nullish(options, "minY", 0)
      nc  == CeilDiv(options.maxX - mnX, options.cellSize)
      nr  == CeilDiv(options.maxY - mnY, options.cellSize)
  IN IF err # "none"
     THEN [object |-> FieldInitializers, error |-> err]
     ELSE [object |-> [cellSize |-> options.cellSize,
                       minX |-> mnX, minY |-> mnY,
                       maxX |-> options.maxX, maxY |-> options.maxY,
                       numCols |-> nc, numRows |-> nr,
                       grid |-> EmptyGrid(nc, nr),
                       collisionTests |-> 0],
           error |-> "none"]

\* Mutation: the cell indices are capped above but not below.
worldToGridNoLowerClamp(sg, x, y) ==
  LET col == (x - sg.minX) \div sg.cellSize
      row == (y - sg.minY) \div sg.cellSize
  IN [col |-> Min(col, sg.numCols - 1),
      row |-> Min(row, sg.numRows - 1)]

worldToGrid(sg, x, y) ==
  LET col == (x - sg.minX) \div sg.cellSize
      row == (y - sg.minY) \div sg.cellSize
  IN [col |-> Max(0, Min(col, sg.numCols - 1)),
      row |-> Max(0, Min(row, sg.numRows - 1))]

\* Mutation: the cells are not emptied before the grid is populated.
ClearGridKeep(sg) == sg.grid

ClearGrid(sg) == EmptyGrid(sg.numCols, sg.numRows)

\* Mutation: the cell range excludes the cell of the max corner when the
\* entity spans more than one cell.
InsertEntityExclusive(sg, g, entity) ==
  LET minCell == worldToGrid(sg, entity.aabb.min.x, entity.aabb.min.y)
      maxCell == worldToGrid(sg, entity.aabb.max.x, entity.aabb.max.y)
  IN [col \in DOMAIN g |-> [row \in DOMAIN g[col] |->
        IF /\ minCell.col <= col /\ (col < maxCell.col \/ col = minCell.col)
           /\ minCell.row <= row /\ (row < maxCell.row \/ row = minCell.row)
        THEN Append(g[col][row], entity)
        ELSE g[col][row]]]

InsertEntity(sg, g, entity) ==
  LET minCell == worldToGrid(sg, entity.aabb.min.x, entity.aabb.min.y)
      maxCell == worldToGrid(sg, entity.aabb.max.x, entity.aabb.max.y)
  IN [col \in DOMAIN g |-> [row \in DOMAIN g[col] |->
        IF /\ minCell.col <= col /\ col <= maxCell.col
           /\ minCell.row <= row /\ row <= maxCell.row
        THEN Append(g[col][row], entity)
        ELSE g[col][row]]]

RECURSIVE PopulateGrid(_, _, _, _)
PopulateGrid(sg, g, es, k) ==
  IF k > Len(es) THEN g
  ELSE PopulateGrid(sg, InsertEntity(sg, g, es[k]), es, k + 1)

SpatialGridUpdate(sg, es) ==
  [sg EXCEPT !.grid = PopulateGrid(sg, ClearGrid(sg), es, 1)]

PairKey(first, second) == IdToString(first.id) \o <<":">> \o IdToString(second.id)

\* Mutation: the checked-pair cache is never consulted.
AlreadyCheckedNever(checked, hashA, hashB) == FALSE

AlreadyChecked(checked, hashA, hashB) == hashA \in checked \/ hashB \in checked

\* Mutation: the counter is not reset at the start of queryPairs.
SpatialGridQueryStartKeep(sg) ==
  [pairs |-> <<>>, checked |-> {}, tests |-> sg.collisionTests, checks |-> 0]

SpatialGridQueryStart(sg) == [pairs |-> <<>>, checked |-> {}, tests |-> 0, checks |-> 0]

\* Mutation: every pair met in a cell is returned, without the overlap test.
SpatialGridBodyNoTest(st, entityA, entityB) ==
  LET hashA == PairKey(entityA, entityB)
      hashB == PairKey(entityB, entityA)
  IN IF AlreadyChecked(st.checked, hashA, hashB) THEN st
     ELSE [pairs   |-> Append(st.pairs, <<entityA, entityB>>),
           checked |-> st.checked \cup {hashA, hashB},
           tests   |-> st.tests + 1,
           checks  |-> st.checks + 1]

\* Mutation: a tested pair is not recorded in the checked set.
SpatialGridBodyNoMark(st, entityA, entityB) ==
  LET hashA == PairKey(entityA, entityB)
      hashB == PairKey(entityB, entityA)
      hit   == aabbIntersects(entityA.aabb, entityB.aabb)
  IN IF AlreadyChecked(st.checked, hashA, hashB) THEN st
     ELSE [pairs   |-> IF hit THEN Append(st.pairs, <<entityA, entityB>>) ELSE st.pairs,
           checked |-> st.checked,
           tests   |-> st.tests + 1,
           checks  |-> st.checks + 1]

SpatialGridBody(st, entityA, entityB) ==
  LET hashA == PairKey(entityA, entityB)
      hashB == PairKey(entityB, entityA)
      hit   == aabbIntersects(entityA.aabb, entityB.aabb)
  IN IF AlreadyChecked(st.checked, hashA, hashB) THEN st
     ELSE [pairs   |-> IF hit THEN Append(st.pairs, <<entityA, entityB>>) ELSE st.pairs,
           checked |-> st.checked \cup {hashA, hashB},
           tests   |-> st.tests + 1,
           checks  |-> st.checks + 1]

RECURSIVE CellLoop(_, _, _, _)
CellLoop(entitiesInCell, i, j, st) ==
  IF i > Len(entitiesInCell) THEN st
  ELSE IF j > Len(entitiesInCell) THEN CellLoop(entitiesInCell, i + 1, i + 2, st)
  ELSE CellLoop(entitiesInCell, i, j + 1,
                SpatialGridBody(st, entitiesInCell[i], entitiesInCell[j]))

RECURSIVE GridLoop(_, _, _, _)
GridLoop(sg, col, row, st) ==
  IF col >= sg.numCols THEN st
  ELSE IF row >= sg.numRows THEN GridLoop(sg, col + 1, 0, st)
  ELSE GridLoop(sg, col, row + 1,
                IF Len(sg.grid[col][row]) < 2 THEN st
                ELSE CellLoop(sg.grid[col][row], 1, 2, st))

SpatialGridQueryPairs(sg) == GridLoop(sg, 0, 0, SpatialGridQueryStart(sg))

(***************************************************************************)
(* Inputs                                                                  *)
(***************************************************************************)
\* Boxes inside, across and outside the worlds of ValidOptions (cells of 2):
\* two boxes that overlap and share four cells, a box that touches one of
\* them at a corner and shares a cell with the other without overlapping it,
\* and boxes beyond the world on either side, two of them far apart but
\* clamped to the same corner cell.
SampleBoxes ==
  { AABB(0, 0, 2, 2), AABB(1, 1, 3, 3), AABB(0, 3, 1, 4),
    AABB(5, 5, 6, 6), AABB(-2, -2, -1, -1), AABB(-5, -5, -4, -4) }

Rosters == {"number", "string"}

StringRoster == << <<"a">>, <<":", "a">>, <<"a", ":">>, <<"b">>, <<"b", ":">> >>

\* The id of the k-th entity: 0, 1, 2, ... (createRandomEntities) or a string.
RosterId(r, k) == IF r = "number" THEN NumberId(k - 1) ELSE StringId(StringRoster[k])

Snapshot(r, boxes) == [k \in 1..Len(boxes) |-> Entity(RosterId(r, k), boxes[k])]

Snapshots ==
  { Snapshot(r, boxes) :
      r \in Rosters, boxes \in UNION {[1..n -> SampleBoxes] : n \in 0..MaxEntities} }

\* What the caller's array can hold at its next update call: the same array,
\* an emptied one, the newest entity moved, an entity pushed or popped.
NextSnapshots(es) ==
  {es, <<>>}
  \cup { [es EXCEPT ![Len(es)].aabb = box] : box \in (IF Len(es) = 0 THEN {} ELSE SampleBoxes) }
  \cup (IF Len(es) = 0 THEN {} ELSE {SubSeq(es, 1, Len(es) - 1)})
  \cup (IF Len(es) >= MaxEntities THEN {}
        ELSE { Append(es, Entity(RosterId(r, Len(es) + 1), box)) :
                 r \in (IF Len(es) = 0 THEN Rosters ELSE {es[1].id.kind}),
                 box \in SampleBoxes })

BaseOptions == [cellSize : {-1, 0, 2}, maxX : {1, 4}, maxY : {0, 4}]

Options ==
  BaseOptions
  \cup { o @@ [minX |-> 1] : o \in BaseOptions }
  \cup { o @@ [minY |-> 4] : o \in BaseOptions }
  \cup { o @@ [minX |-> 1, minY |-> 4] : o \in BaseOptions }

ValidOptions == { o \in Options : ValidationError(o) = "none" }

Coords == 0..MaxCoord

PureBoxes == { AABB(x1, y1, x2, y2) : x1 \in Coords, y1 \in Coords, x2 \in Coords, y2 \in Coords }

(***************************************************************************)
(* The state machine                                                       *)
(***************************************************************************)
\* The module-level state of web/main.ts before init() runs.
WebLoaded ==
  /\ bruteForceFrameCounter = 0
  /\ bruteForceTests = 0
  /\ gridTests = 0
  /\ collisionPairs = <<>>
  /\ frames = 0
  /\ calls = <<>>
  /\ created = <<>>

\* No detector has been constructed and no function has been called.
Unconstructed ==
  /\ bruteForce = NewBruteForce
  /\ spatialGrid = FieldInitializers
  /\ gridError = "none"
  /\ bfLife = "none"
  /\ gridLife = "none"
  /\ bfPairs = <<>>
  /\ gridPairs = <<>>
  /\ bfQueries = 0
  /\ gridQueries = 0
  /\ bfChecks = 0
  /\ gridChecks = 0
  /\ intersects = <<>>
  /\ gridOptions = <<>>

Init ==
  /\ pc \in {"app", "create", "aabb"}
  /\ entities = <<>>
  /\ Unconstructed
  /\ boxA \in (IF pc = "aabb" THEN PureBoxes ELSE {AABB(0, 0, 0, 0)})
  /\ boxB \in (IF pc = "aabb" THEN PureBoxes ELSE {AABB(0, 0, 0, 0)})
  /\ WebLoaded

\* Callers that use one detector directly: "app" hands update a fresh array
\* each time, "caller" and "edited" keep one array and edit it in place.
Direct == {"app", "caller", "edited"}

NothingConstructed == bfLife = "none" /\ gridLife = "none" /\ gridError = "none"

\* new BruteForceBroadPhase()
ConstructBruteForce ==
  /\ pc \in Direct
  /\ NothingConstructed
  /\ bruteForce' = NewBruteForce
  /\ bfLife' = "new"
  /\ UNCHANGED <<pc, entities, spatialGrid, gridError, gridLife, bfPairs, gridPairs,
                 bfQueries, gridQueries, bfChecks, gridChecks, boxA, boxB, intersects, gridOptions>>
  /\ UNCHANGED webVars

\* new SpatialGridBroadPhase(options)
ConstructSpatialGrid ==
  /\ pc \in Direct
  /\ NothingConstructed
  /\ \E options \in Options :
       LET made == NewSpatialGrid(options)
       IN /\ spatialGrid' = made.object
          /\ gridError' = made.error
          /\ gridLife' = IF made.error = "none" THEN "new" ELSE "none"
          /\ gridOptions' = <<options>>
  /\ UNCHANGED <<pc, entities, bruteForce, bfLife, bfPairs, gridPairs,
                 bfQueries, gridQueries, bfChecks, gridChecks, boxA, boxB, intersects>>
  /\ UNCHANGED webVars

\* One iteration of runDemo up to the construction of both detectors.
DemoCreate ==
  /\ pc = "create"
  /\ \E es \in Snapshots, options \in ValidOptions :
       /\ entities' = es
       /\ spatialGrid' = NewSpatialGrid(options).object
       /\ gridOptions' = <<options>>
  /\ bruteForce' = NewBruteForce
  /\ bfLife' = "new"
  /\ gridLife' = "new"
  /\ pc' = "update_brute"
  /\ UNCHANGED <<gridError, bfPairs, gridPairs, bfQueries, gridQueries,
                 bfChecks, gridChecks, boxA, boxB, intersects>>
  /\ UNCHANGED webVars

\* The caller's array and the detector's snapshot agree again after update.
AfterUpdate(p) == IF p = "edited" THEN "caller" ELSE p

\* The array handed to update: the demo and the editing caller pass their
\* array as it is.
UpdateArguments == IF pc = "app" THEN NextSnapshots(entities) ELSE {entities}

\* bruteForce.update(entities)
BruteForceUpdateCall ==
  /\ pc \in Direct \cup {"update_brute"}
  /\ bfLife # "none"
  /\ \E es \in UpdateArguments :
       /\ entities' = es
       /\ bruteForce' = BruteForceUpdate(bruteForce, es)
  /\ bfLife' = "updated"
  /\ bfPairs' = <<>>
  /\ bfQueries' = 0
  /\ pc' = IF pc \in Direct THEN AfterUpdate(pc) ELSE "update_grid"
  /\ UNCHANGED <<spatialGrid, gridError, gridLife, gridPairs, gridQueries,
                 bfChecks, gridChecks, boxA, boxB, intersects, gridOptions>>
  /\ UNCHANGED webVars

\* spatialGrid.update(entities)
SpatialGridUpdateCall ==
  /\ pc \in Direct \cup {"update_grid"}
  /\ gridLife # "none"
  /\ \E es \in UpdateArguments :
       /\ entities' = es
       /\ spatialGrid' = SpatialGridUpdate(spatialGrid, es)
  /\ gridLife' = "updated"
  /\ gridPairs' = <<>>
  /\ gridQueries' = 0
  /\ pc' = IF pc \in Direct THEN AfterUpdate(pc) ELSE "query_brute"
  /\ UNCHANGED <<bruteForce, gridError, bfLife, bfPairs, bfQueries,
                 bfChecks, gridChecks, boxA, boxB, intersects, gridOptions>>
  /\ UNCHANGED webVars

\* bruteForce.queryPairs()
BruteForceQueryCall ==
  /\ pc \in Direct \cup {"query_brute"}
  /\ bfLife # "none"
  /\ bfQueries < MaxQueries
  /\ LET out == BruteForceQueryPairs(bruteForce)
     IN /\ bruteForce' = [bruteForce EXCEPT !.collisionTests = out.tests]
        /\ bfPairs' = out.pairs
        /\ bfChecks' = out.checks
  /\ bfQueries' = bfQueries + 1
  /\ pc' = IF pc \in Direct THEN pc ELSE "query_grid"
  /\ UNCHANGED <<entities, spatialGrid, gridError, bfLife, gridLife, gridPairs,
                 gridQueries, gridChecks, boxA, boxB, intersects, gridOptions>>
  /\ UNCHANGED webVars

\* Mutation: the query empties the cells it has gone through.
SpatialGridQueryCallDraining ==
  /\ pc \in Direct \cup {"query_grid"}
  /\ gridLife # "none"
  /\ gridQueries < MaxQueries
  /\ LET out == SpatialGridQueryPairs(spatialGrid)
     IN /\ spatialGrid' = [spatialGrid EXCEPT !.collisionTests = out.tests,
                                              !.grid = ClearGrid(spatialGrid)]
        /\ gridPairs' = out.pairs
        /\ gridChecks' = out.checks
  /\ gridQueries' = gridQueries + 1
  /\ pc' = IF pc \in Direct THEN pc ELSE "compare"
  /\ UNCHANGED <<entities, bruteForce, gridError, bfLife, gridLife, bfPairs,
                 bfQueries, bfChecks, boxA, boxB, intersects, gridOptions>>
  /\ UNCHANGED webVars

\* spatialGrid.queryPairs()
SpatialGridQueryCall ==
  /\ pc \in Direct \cup {"query_grid"}
  /\ gridLife # "none"
  /\ gridQueries < MaxQueries
  /\ LET out == SpatialGridQueryPairs(spatialGrid)
     IN /\ spatialGrid' = [spatialGrid EXCEPT !.collisionTests = out.tests]
        /\ gridPairs' = out.pairs
        /\ gridChecks' = out.checks
  /\ gridQueries' = gridQueries + 1
  /\ pc' = IF pc \in Direct THEN pc ELSE "compare"
  /\ UNCHANGED <<entities, bruteForce, gridError, bfLife, gridLife, bfPairs,
                 bfQueries, bfChecks, boxA, boxB, intersects, gridOptions>>
  /\ UNCHANGED webVars

\* The pair sets are compared and the iteration ends: its entities and both
\* detectors go out of scope.
DemoCompare ==
  /\ pc = "compare"
  /\ pc' = "create"
  /\ entities' = <<>>
  /\ bruteForce' = NewBruteForce
  /\ spatialGrid' = FieldInitializers
  /\ bfLife' = "none"
  /\ gridLife' = "none"
  /\ bfPairs' = <<>>
  /\ gridPairs' = <<>>
  /\ bfQueries' = 0
  /\ gridQueries' = 0
  /\ bfChecks' = 0
  /\ gridChecks' = 0
  /\ gridOptions' = <<>>
  /\ UNCHANGED <<gridError, boxA, boxB, intersects>>
  /\ UNCHANGED webVars

\* aabbIntersects(a, b) called directly
IntersectsCall ==
  /\ pc = "aabb"
  /\ intersects = <<>>
  /\ intersects' = <<aabbIntersects(boxA, boxB)>>
  /\ UNCHANGED <<pc, entities, bruteForce, spatialGrid, gridError, bfLife, gridLife,
                 bfPairs, gridPairs, bfQueries, gridQueries, bfChecks, gridChecks,
                 boxA, boxB, gridOptions>>
  /\ UNCHANGED webVars

Next ==
  \/ ConstructBruteForce
  \/ ConstructSpatialGrid
  \/ DemoCreate
  \/ BruteForceUpdateCall
  \/ SpatialGridUpdateCall
  \/ BruteForceQueryCall
  \/ SpatialGridQueryCall
  \/ DemoCompare
  \/ IntersectsCall

Spec == Init /\ [][Next]_vars

(***************************************************************************)
(* A caller that keeps one array, hands it to update and edits it in place *)
(* between updates                                                         *)
(***************************************************************************)
CallerBoxes == { AABB(0, 0, 1, 1), AABB(5, 5, 6, 6) }

CallerSnapshots ==
  UNION { { Snapshot(r, boxes) : boxes \in [1..n -> CallerBoxes] } :
            r \in Rosters, n \in 0..MaxEntities }

\* Mutation: update stores the caller's array itself.
BruteForceSharesArrayKept == TRUE

\* update stores [...entities], a new array: the caller's array is not the
\* array the detector reads.
BruteForceSharesArray == FALSE

\* The least roster position whose id no element of the array carries.
UnusedPosition(es) ==
  CHOOSE k \in 1..(Len(es) + 1) :
    /\ \A m \in 1..Len(es) : es[m].id # RosterId(es[1].id.kind, k)
    /\ \A j \in 1..(k - 1) : \E m \in 1..Len(es) : es[m].id = RosterId(es[1].id.kind, j)

Reverse(es) == [k \in 1..Len(es) |-> es[Len(es) + 1 - k]]

\* entities.push(e), entities.pop(), entities.shift(), entities.reverse()
ArrayEdits(es) ==
  (IF Len(es) = 0 \/ Len(es) >= MaxEntities THEN {}
   ELSE { Append(es, Entity(RosterId(es[1].id.kind, UnusedPosition(es)), box)) :
            box \in CallerBoxes })
  \cup (IF Len(es) = 0 THEN {} ELSE {SubSeq(es, 1, Len(es) - 1), Tail(es)})
  \cup (IF Len(es) < 2 THEN {} ELSE {Reverse(es)})

\* The caller edits its array after an update of the detector it uses.
CallerEdit ==
  /\ pc = "caller"
  /\ bfLife = "updated" \/ gridLife = "updated"
  /\ \E es \in ArrayEdits(entities) :
       /\ entities' = es
       /\ bruteForce' = IF bfLife = "updated" /\ BruteForceSharesArray
                        THEN [bruteForce EXCEPT !.entities = es]
                        ELSE bruteForce
  /\ pc' = "edited"
  /\ UNCHANGED <<spatialGrid, gridError, bfLife, gridLife, bfPairs, gridPairs,
                 bfQueries, gridQueries, bfChecks, gridChecks, boxA, boxB,
                 intersects, gridOptions, webVars>>

CallerInit ==
  /\ pc = "caller"
  /\ entities \in CallerSnapshots
  /\ Unconstructed
  /\ boxA = AABB(0, 0, 0, 0)
  /\ boxB = AABB(0, 0, 0, 0)
  /\ WebLoaded

CallerNext ==
  \/ ConstructBruteForce
  \/ ConstructSpatialGrid
  \/ BruteForceUpdateCall
  \/ SpatialGridUpdateCall
  \/ CallerEdit
  \/ BruteForceQueryCall
  \/ SpatialGridQueryCall

CallerSpec == CallerInit /\ [][CallerNext]_vars

(***************************************************************************)
(* web/main.ts: the browser simulation                                     *)
(***************************************************************************)
\* The world of the model is two cells by two; the page's is 1024 x 768,
\* sixteen cells by twelve.
WORLD_WIDTH == 128
WORLD_HEIGHT == 128

CELL_SIZE == 64
MIN_ENTITY_SIZE == 10
MAX_ENTITY_SIZE == 50
BRUTE_FORCE_UPDATE_INTERVAL == 10

\* Frames run by one behaviour.
MaxFrames == 21

\* Velocities (Math.random() - 0.5) * MAX_VELOCITY * 2 lie in (-2.5, 2.5).
Velocities == -2..2

SimEntity(i, x, y, width, height, vx, vy) ==
  [id |-> NumberId(i), aabb |-> AABB(x, y, x + width, y + height), vx |-> vx, vy |-> vy]

\* Outcomes of the random draws of createEntities for one entity, as
\* <<x, y, width, height, vx, vy>>: next to each wall and heading for it, in
\* away from it, with the smallest and the largest size.
SimSamples ==
  { <<1, 1, 20, 20, -2, -1>>,
    <<WORLD_WIDTH - 21, WORLD_HEIGHT - 21, 20, 20, 2, 2>>,
    <<5, 30, MIN_ENTITY_SIZE, MAX_ENTITY_SIZE - 1, 1, 0>> }

\* A draw createEntities can make: sizes in [MIN, MAX), the box inside the
\* world short of its far walls, velocities below MAX_VELOCITY.
DrawPossible(d) ==
  /\ MIN_ENTITY_SIZE <= d[3] /\ d[3] < MAX_ENTITY_SIZE
  /\ MIN_ENTITY_SIZE <= d[4] /\ d[4] < MAX_ENTITY_SIZE
  /\ 0 <= d[1] /\ d[1] < WORLD_WIDTH - d[3]
  /\ 0 <= d[2] /\ d[2] < WORLD_HEIGHT - d[4]
  /\ d[5] \in Velocities /\ d[6] \in Velocities

\* Values of the entity-count control.
EntityCounts == {1, 2}

\* The arrays createEntities(count) can build: ids 0 .. count - 1.
CreatedEntities(count) ==
  { [i \in 1..count |-> SimEntity(i - 1, d[i][1], d[i][2], d[i][3], d[i][4], d[i][5], d[i][6])] :
      d \in [1..count -> { x \in SimSamples : DrawPossible(x) }] }

\* The module state of web/main.ts with the detectors, as one record.
WebState ==
  [entities |-> entities, spatialGrid |-> spatialGrid, bruteForce |-> bruteForce,
   bfPairs |-> bfPairs, gridPairs |-> gridPairs,
   bfQueries |-> bfQueries, gridQueries |-> gridQueries,
   bfChecks |-> bfChecks, gridChecks |-> gridChecks,
   bruteForceFrameCounter |-> bruteForceFrameCounter,
   bruteForceTests |-> bruteForceTests, gridTests |-> gridTests,
   collisionPairs |-> collisionPairs, frames |-> frames, calls |-> calls,
   created |-> created]

\* createEntities(count) with the drawn array es
createEntities(w, es) ==
  [w EXCEPT !.entities = es,
            !.created = es,
            !.spatialGrid = SpatialGridUpdate(w.spatialGrid, es),
            !.gridPairs = <<>>,
            !.gridQueries = 0,
            !.bruteForce = BruteForceUpdate(w.bruteForce, es),
            !.bfPairs = <<>>,
            !.bfQueries = 0]

\* One axis of the position update and boundary bounce: the min coordinate
\* is reassigned first, and the max coordinate is then computed from the
\* reassigned min.
BounceAxis(lo, hi, v, limit) ==
  LET lo1 == lo + v
      hi1 == hi + v
      lo2 == Max(0, Min(limit - (hi1 - lo1), lo1))
  IN IF lo1 < 0 \/ hi1 > limit
     THEN [lo |-> lo2, hi |-> lo2 + (hi1 - lo2), v |-> -v]
     ELSE [lo |-> lo1, hi |-> hi1, v |-> v]

MoveEntity(e) ==
  LET h == BounceAxis(e.aabb.min.x, e.aabb.max.x, e.vx, WORLD_WIDTH)
      u == BounceAxis(e.aabb.min.y, e.aabb.max.y, e.vy, WORLD_HEIGHT)
  IN [e EXCEPT !.aabb = AABB(h.lo, u.lo, h.hi, u.hi), !.vx = h.v, !.vy = u.v]

\* Mutation: brute force runs when the counter has passed the interval.
BruteForceDueLate(counter) == counter > BRUTE_FORCE_UPDATE_INTERVAL

BruteForceDue(counter) == counter >= BRUTE_FORCE_UPDATE_INTERVAL

\* updateSimulation(): the entities move in place, so the array brute force
\* copied holds the moved entities too; the grid is rebuilt and queried, and
\* brute force is updated and queried when it is due.
updateSimulation(w) ==
  LET moved   == [k \in 1..Len(w.entities) |-> MoveEntity(w.entities[k])]
      sg      == SpatialGridUpdate(w.spatialGrid, moved)
      gridOut == SpatialGridQueryPairs(sg)
      counter == w.bruteForceFrameCounter + 1
      bf      == BruteForceUpdate(w.bruteForce, moved)
      bfOut   == BruteForceQueryPairs(bf)
      shared  == [w EXCEPT !.entities = moved,
                           !.bruteForce = [w.bruteForce EXCEPT !.entities = moved],
                           !.spatialGrid = [sg EXCEPT !.collisionTests = gridOut.tests],
                           !.gridPairs = gridOut.pairs,
                           !.gridQueries = 1,
                           !.gridChecks = gridOut.checks,
                           !.collisionPairs = gridOut.pairs,
                           !.gridTests = gridOut.tests,
                           !.frames = w.frames + 1]
  IN IF BruteForceDue(counter)
     THEN [shared EXCEPT !.bruteForce = [bf EXCEPT !.collisionTests = bfOut.tests],
                         !.bfPairs = bfOut.pairs,
                         !.bfQueries = 1,
                         !.bfChecks = bfOut.checks,
                         !.bruteForceTests = bfOut.tests,
                         !.bruteForceFrameCounter = 0,
                         !.calls = <<"spatialGrid.update", "spatialGrid.queryPairs",
                                     "bruteForce.update", "bruteForce.queryPairs">>]
     ELSE [shared EXCEPT !.bruteForceFrameCounter = counter,
                         !.calls = <<"spatialGrid.update", "spatialGrid.queryPairs">>]

\* The handler returns: its record becomes the state.
Install(w) ==
  /\ entities' = w.entities
  /\ spatialGrid' = w.spatialGrid
  /\ bruteForce' = w.bruteForce
  /\ bfPairs' = w.bfPairs
  /\ gridPairs' = w.gridPairs
  /\ bfQueries' = w.bfQueries
  /\ gridQueries' = w.gridQueries
  /\ bfChecks' = w.bfChecks
  /\ gridChecks' = w.gridChecks
  /\ bruteForceFrameCounter' = w.bruteForceFrameCounter
  /\ bruteForceTests' = w.bruteForceTests
  /\ gridTests' = w.gridTests
  /\ collisionPairs' = w.collisionPairs
  /\ frames' = w.frames
  /\ calls' = w.calls
  /\ created' = w.created

WebOptions == [cellSize |-> CELL_SIZE, minX |-> 0, minY |-> 0,
               maxX |-> WORLD_WIDTH, maxY |-> WORLD_HEIGHT]

\* init(): both detectors are constructed, the entities created, and
\* animate() runs the first frame.
InitCall ==
  /\ pc = "web"
  /\ NothingConstructed
  /\ \E count \in EntityCounts : \E es \in CreatedEntities(count) :
       Install(updateSimulation(createEntities(
         [WebState EXCEPT !.spatialGrid = NewSpatialGrid(WebOptions).object,
                          !.bruteForce = NewBruteForce], es)))
  /\ bfLife' = "updated"
  /\ gridLife' = "updated"
  /\ gridOptions' = <<WebOptions>>
  /\ UNCHANGED <<pc, gridError, boxA, boxB, intersects>>

\* The entity-count control changes: createEntities(entityCount).
EntityCountChange ==
  /\ pc = "web"
  /\ gridLife = "updated"
  /\ \E count \in EntityCounts : \E es \in CreatedEntities(count) :
       Install(createEntities(WebState, es))
  /\ UNCHANGED <<pc, gridError, bfLife, gridLife, boxA, boxB, intersects, gridOptions>>

\* requestAnimationFrame calls animate(): updateSimulation(), then render().
AnimationFrame ==
  /\ pc = "web"
  /\ gridLife = "updated"
  /\ frames < MaxFrames
  /\ Install(updateSimulation(WebState))
  /\ UNCHANGED <<pc, gridError, bfLife, gridLife, boxA, boxB, intersects, gridOptions>>

WebInit ==
  /\ pc = "web"
  /\ entities = <<>>
  /\ Unconstructed
  /\ boxA = AABB(0, 0, 0, 0)
  /\ boxB = AABB(0, 0, 0, 0)
  /\ WebLoaded

WebNext ==
  \/ InitCall
  \/ EntityCountChange
  \/ AnimationFrame

WebSpec == WebInit /\ [][WebNext]_vars

(***************************************************************************)
(* Vocabulary of the properties                                            *)
(***************************************************************************)
PairIds(pairs) == { {p[1].id, p[2].id} : p \in Range(pairs) }

EntityPairs(pairs) == { {p[1], p[2]} : p \in Range(pairs) }

\* Closed-interval overlap on both axes.
Overlap(a, b) ==
  /\ a.min.x <= b.max.x /\ b.min.x <= a.max.x
  /\ a.min.y <= b.max.y /\ b.min.y <= a.max.y

NoDuplicatePair(pairs) ==
  \A m, n \in 1..Len(pairs) :
    m < n => {pairs[m][1], pairs[m][2]} # {pairs[n][1], pairs[n][2]}

Cells(sg) == { <<col, row>> : col \in 0..(sg.numCols - 1), row \in 0..(sg.numRows - 1) }

CellsOf(sg, e) == { c \in Cells(sg) : e \in Range(sg.grid[c[1]][c[2]]) }

SharedCells(sg, e, f) == CellsOf(sg, e) \cap CellsOf(sg, f)

ConfigFields == {"cellSize", "minX", "minY", "maxX", "maxY", "numCols", "numRows"}

\* The error of the taxonomy that a thrown message stands for.
ErrorKind(message) ==
  IF message = "cellSize must be greater than 0" THEN "InvalidCellSize"
  ELSE IF message \in {"maxX must be greater than minX", "maxY must be greater than minY"}
  THEN "InvalidBounds"
  ELSE "none"

(***************************************************************************)
(* Properties                                                              *)
(***************************************************************************)
\* C1: when both detectors were updated with the same snapshot and queried,
\* the set of unordered id-pairs of the brute-force result equals that of the
\* grid result.
C1_CrossStrategyEquivalence ==
  pc = "compare" => PairIds(bfPairs) = PairIds(gridPairs)

\* C2: one queryPairs call never returns the same unordered pair of entities
\* twice, also when the two entities share several grid cells.
C2_NoDuplicatePairs ==
  NoDuplicatePair(bfPairs) /\ NoDuplicatePair(gridPairs)

\* Two overlapping entities referenced from four common cells, returned once.
C2_Witness ==
  /\ gridQueries >= 1
  /\ \E p \in Range(gridPairs) :
       Cardinality(SharedCells(spatialGrid, p[1], p[2])) = 4

\* C3: every returned pair consists of two distinct entities of the current
\* snapshot whose boxes overlap in the closed-interval sense.
C3_PairsOverlap ==
  \A p \in Range(bfPairs) \cup Range(gridPairs) :
    /\ p[1] \in Range(entities)
    /\ p[2] \in Range(entities)
    /\ p[1] # p[2]
    /\ Overlap(p[1].aabb, p[2].aabb)

\* The grid tested two entities of one cell that do not overlap and returned
\* another pair.
C3_Witness ==
  /\ gridQueries >= 1
  /\ gridPairs # <<>>
  /\ \E e \in Range(entities), f \in Range(entities) :
       /\ e # f
       /\ SharedCells(spatialGrid, e, f) # {}
       /\ ~Overlap(e.aabb, f.aabb)

\* C4: a queryPairs call that follows another one without an update in
\* between returns the same set of pairs and leaves collisionTests at the
\* same value.
C4_IdempotentRequery ==
  [][ /\ (bfQueries >= 1 /\ bfQueries' = bfQueries + 1) =>
           /\ EntityPairs(bfPairs') = EntityPairs(bfPairs)
           /\ bruteForce'.collisionTests = bruteForce.collisionTests
      /\ (gridQueries >= 1 /\ gridQueries' = gridQueries + 1) =>
           /\ EntityPairs(gridPairs') = EntityPairs(gridPairs)
           /\ spatialGrid'.collisionTests = spatialGrid.collisionTests ]_vars

\* A second grid query in a row that tested and returned pairs.
C4_Witness ==
  /\ gridQueries = 2
  /\ gridPairs # <<>>
  /\ spatialGrid.collisionTests > 0

\* C5: collisionTests is the number of overlap checks executed by the most
\* recent queryPairs call, whatever calls came before it.
C5_TestsOfLastQuery ==
  /\ bruteForce.collisionTests = bfChecks
  /\ spatialGrid.collisionTests = gridChecks

\* A second brute-force query in a row over three entities: 3 tests, not 6.
C5_Witness ==
  /\ bfQueries = 2
  /\ Len(bruteForce.entities) = 3
  /\ bruteForce.collisionTests = 3

\* C6: after queryPairs on n entities the brute-force counter is n*(n-1)/2.
C6_BruteForceTestCount ==
  bfQueries >= 1 =>
    2 * bruteForce.collisionTests =
      Len(bruteForce.entities) * (Len(bruteForce.entities) - 1)

\* Three pairwise disjoint entities: nothing returned, three tests.
C6_Witness ==
  /\ bfQueries >= 1
  /\ Len(bruteForce.entities) = 3
  /\ bfPairs = <<>>
  /\ bruteForce.collisionTests = 3

\* C7: after update the detector holds the entities of that update and no
\* others, and a query after update([]) returns nothing with a counter of 0.
C7_UpdateReplaces ==
  /\ bfLife = "updated" => bruteForce.entities = entities
  /\ gridLife = "updated" =>
       \A c \in Cells(spatialGrid) :
         Range(spatialGrid.grid[c[1]][c[2]]) \subseteq Range(entities)
  /\ (bfLife = "updated" /\ bfQueries >= 1 /\ entities = <<>>) =>
       (bfPairs = <<>> /\ bruteForce.collisionTests = 0)
  /\ (gridLife = "updated" /\ gridQueries >= 1 /\ entities = <<>>) =>
       (gridPairs = <<>> /\ spatialGrid.collisionTests = 0)

\* The grid was updated with no entities after a query that had tested pairs.
C7_Witness ==
  /\ gridLife = "updated"
  /\ entities = <<>>
  /\ gridQueries = 0
  /\ spatialGrid.collisionTests > 0

\* C8: with 0 or 1 entity both detectors return no pair and count 0 tests.
C8_FewEntities ==
  Len(entities) <= 1 =>
    /\ (bfLife = "updated" /\ bfQueries >= 1) =>
         (bfPairs = <<>> /\ bruteForce.collisionTests = 0)
    /\ (gridLife = "updated" /\ gridQueries >= 1) =>
         (gridPairs = <<>> /\ spatialGrid.collisionTests = 0)

\* Both detectors queried on a single entity that lies in four cells.
C8_Witness ==
  /\ pc = "compare"
  /\ Len(entities) = 1
  /\ Cardinality(CellsOf(spatialGrid, entities[1])) = 4

\* C9: the grid constructor throws the error of the violated rule (cell size
\* first, an omitted minimum counting as 0) and then leaves every
\* configuration field unset and the grid without cells; it returns for every
\* other configuration.
C9_ConstructionValidation ==
  gridOptions # <<>> =>
    LET o == gridOptions[1]
        lowX == IF "minX" \in DOMAIN o THEN o.minX ELSE 0
        lowY == IF "minY" \in DOMAIN o THEN o.minY ELSE 0
        badBounds == o.maxX <= lowX \/ o.maxY <= lowY
    IN /\ o.cellSize <= 0 => ErrorKind(gridError) = "InvalidCellSize"
       /\ (o.cellSize > 0 /\ badBounds) => ErrorKind(gridError) = "InvalidBounds"
       /\ (o.cellSize <= 0 \/ badBounds) =>
            /\ gridLife = "none"
            /\ DOMAIN spatialGrid \cap ConfigFields = {}
            /\ spatialGrid.grid = <<>>
       /\ (o.cellSize > 0 /\ ~badBounds) =>
            /\ gridError = "none"
            /\ gridLife # "none"
            /\ ConfigFields \subseteq DOMAIN spatialGrid
            /\ spatialGrid.cellSize = o.cellSize
            /\ spatialGrid.minX = lowX /\ spatialGrid.minY = lowY
            /\ spatialGrid.maxX = o.maxX /\ spatialGrid.maxY = o.maxY

\* A cell size of 0 with minX omitted was rejected.
C9_Witness ==
  /\ gridOptions # <<>>
  /\ gridOptions[1].cellSize = 0
  /\ "minX" \notin DOMAIN gridOptions[1]
  /\ gridError = "cellSize must be greater than 0"

\* C10: aabbIntersects returns false exactly when the boxes are separated on
\* the X axis or on the Y axis, so boxes that only touch intersect.
C10_IntersectsDefinition ==
  intersects # <<>> =>
    (intersects[1] = FALSE <=>
       \/ boxA.max.x < boxB.min.x
       \/ boxB.max.x < boxA.min.x
       \/ boxA.max.y < boxB.min.y
       \/ boxB.max.y < boxA.min.y)

\* Two boxes that touch only at a corner were reported as intersecting.
C10_Witness ==
  /\ intersects = <<TRUE>>
  /\ boxA.min.x < boxA.max.x /\ boxA.min.y < boxA.max.y
  /\ boxB.min.x < boxB.max.x /\ boxB.min.y < boxB.max.y
  /\ boxA.max.x = boxB.min.x
  /\ boxA.max.y = boxB.min.y

\* C11: aabbIntersects is symmetric: the value returned for (a, b) is the one
\* it has for (b, a).
C11_IntersectsSymmetric ==
  intersects # <<>> => intersects[1] = aabbIntersects(boxB, boxA)

\* Two well-formed boxes, the first one entirely to the right of the second:
\* the call returned false through the second X-axis comparison.
C11_Witness ==
  /\ intersects = <<FALSE>>
  /\ boxA.min.x <= boxA.max.x /\ boxA.min.y <= boxA.max.y
  /\ boxB.min.x <= boxB.max.x /\ boxB.min.y <= boxB.max.y
  /\ boxB.max.x < boxA.min.x
  /\ boxA.min.y <= boxB.max.y /\ boxB.min.y <= boxA.max.y

\* The box lies entirely outside the configured world rectangle.
OutsideWorld(sg, box) ==
  \/ box.max.x < sg.minX \/ box.min.x > sg.maxX
  \/ box.max.y < sg.minY \/ box.min.y > sg.maxY

\* Pairs of entities of the snapshot that lie outside the world, do not
\* overlap, and were clamped into a common cell.
ClampedTogether ==
  { pr \in SUBSET Range(entities) :
      /\ Cardinality(pr) = 2
      /\ \A e \in pr : OutsideWorld(spatialGrid, e.aabb)
      /\ \A e, f \in pr : e # f => /\ ~Overlap(e.aabb, f.aabb)
                                   /\ SharedCells(spatialGrid, e, f) # {} }

\* C12 as stated: two entities outside the world bounds whose boxes do not
\* overlap are returned by the grid's queryPairs() as a candidate pair once
\* clamping has placed both in the same edge cell.
C12_ClampedPairReturned ==
  (gridLife = "updated" /\ gridQueries >= 1) =>
    \A pr \in ClampedTogether : pr \in EntityPairs(gridPairs)

\* C12, amended: such a pair is never returned by the grid's queryPairs();
\* sharing the edge cell only makes the query run overlap tests in that cell,
\* which collisionTests counts.
C12_ClampedPairTestedNotReturned ==
  (gridLife = "updated" /\ gridQueries >= 1) =>
    \A pr \in ClampedTogether :
      /\ pr \notin EntityPairs(gridPairs)
      /\ spatialGrid.collisionTests >= 1

\* Two boxes below the world's origin, more than a box width apart, both held
\* by cell (0, 0); the query tested the pair and returned nothing.
C12_Witness ==
  /\ gridLife = "updated" /\ gridQueries >= 1
  /\ Len(entities) = 2
  /\ {entities[1].aabb, entities[2].aabb} = {AABB(-2, -2, -1, -1), AABB(-5, -5, -4, -4)}
  /\ Range(entities) \in ClampedTogether
  /\ Range(spatialGrid.grid[0][0]) = Range(entities)
  /\ spatialGrid.collisionTests = 1
  /\ gridPairs = <<>>

\* Unordered pairs of distinct entities of a snapshot.
UnorderedPairs(es) == { pr \in SUBSET Range(es) : Cardinality(pr) = 2 }

\* C13: after a grid queryPairs() on a snapshot of n entities, collisionTests
\* is at most n * (n - 1) / 2, hence at most the count brute force reports
\* for the same snapshot.
C13_GridTestsBounded ==
  /\ (gridLife = "updated" /\ gridQueries >= 1) =>
       2 * spatialGrid.collisionTests <= Len(entities) * (Len(entities) - 1)
  /\ pc = "compare" => spatialGrid.collisionTests <= bruteForce.collisionTests

\* Three entities that all span the four cells of a 2 x 2 grid: every pair
\* meets in every cell and the query still ran exactly three tests.
C13_Witness ==
  /\ gridLife = "updated" /\ gridQueries >= 1
  /\ Len(entities) = 3
  /\ Cardinality(Cells(spatialGrid)) = 4
  /\ \A e \in Range(entities) : CellsOf(spatialGrid, e) = Cells(spatialGrid)
  /\ spatialGrid.collisionTests = 3

\* C14: after a grid queryPairs(), collisionTests equals the number of
\* unordered entity pairs that share at least one cell, each such pair being
\* tested exactly once however many cells it shares.
C14_TestsCountSharingPairs ==
  (gridLife = "updated" /\ gridQueries >= 1) =>
    spatialGrid.collisionTests =
      Cardinality({ pr \in UnorderedPairs(entities) :
                      \E e, f \in pr : e # f /\ SharedCells(spatialGrid, e, f) # {} })

\* The two keys under which queryPairs() records an unordered pair.
KeysOf(pr) == { PairKey(t[1], t[2]) : t \in { u \in pr \X pr : u[1] # u[2] } }

\* C15: for a snapshot with pairwise distinct ids, two different unordered
\* pairs never share a checked-set key, and a queried grid returns every
\* overlapping pair that shares a cell.
C15_KeysDistinguishPairs ==
  /\ \A p, q \in UnorderedPairs(entities) : p # q => KeysOf(p) \cap KeysOf(q) = {}
  /\ (gridLife = "updated" /\ gridQueries >= 1) =>
       \A pr \in UnorderedPairs(entities) :
         (\E e, f \in pr : /\ e # f /\ Overlap(e.aabb, f.aabb)
                           /\ SharedCells(spatialGrid, e, f) # {})
           => pr \in EntityPairs(gridPairs)

\* Position of an entity in a snapshot with pairwise distinct ids.
IndexOf(es, e) == CHOOSE k \in 1..Len(es) : es[k] = e

\* Index pairs (i, j), i < j, compared in the order of the nested loops.
LoopBefore(i1, j1, i2, j2) == i1 < i2 \/ (i1 = i2 /\ j1 < j2)

\* C16: brute-force queryPairs() tests each index pair i < j once and returns
\* exactly the intersecting pairs (entity_i, entity_j), earlier-indexed entity
\* first, in increasing (i, j) order.
C16_BruteForceOrder ==
  bfQueries >= 1 =>
    LET es == bruteForce.entities
        n  == Len(es)
    IN /\ 2 * bfChecks = n * (n - 1)
       /\ \A m \in 1..Len(bfPairs) :
            /\ bfPairs[m][1] \in Range(es) /\ bfPairs[m][2] \in Range(es)
            /\ IndexOf(es, bfPairs[m][1]) < IndexOf(es, bfPairs[m][2])
            /\ Overlap(bfPairs[m][1].aabb, bfPairs[m][2].aabb)
       /\ \A i, j \in 1..n :
            (i < j /\ Overlap(es[i].aabb, es[j].aabb)) =>
              \E m \in 1..Len(bfPairs) : bfPairs[m] = <<es[i], es[j]>>
       /\ \A m, k \in 1..Len(bfPairs) :
            m < k => LoopBefore(IndexOf(es, bfPairs[m][1]), IndexOf(es, bfPairs[m][2]),
                                IndexOf(es, bfPairs[k][1]), IndexOf(es, bfPairs[k][2]))

\* Three entities of which the first and the last overlap the middle one but
\* not each other: the result is (1, 2) followed by (2, 3).
C16_Witness ==
  /\ bfQueries >= 1
  /\ Len(bruteForce.entities) = 3
  /\ ~Overlap(bruteForce.entities[1].aabb, bruteForce.entities[3].aabb)
  /\ bfPairs = << <<bruteForce.entities[1], bruteForce.entities[2]>>,
                  <<bruteForce.entities[2], bruteForce.entities[3]>> >>

\* The cell index of a coordinate along one axis: the cell whose half-open
\* interval holds it, the first cell below the world, the last one above it.
ToCellIndex(x, origin, size, count) ==
  CHOOSE k \in 0..(count - 1) :
    /\ (k > 0) => origin + k * size <= x
    /\ (k < count - 1) => x < origin + (k + 1) * size

ToCell(sg, x, y) ==
  [col |-> ToCellIndex(x, sg.minX, sg.cellSize, sg.numCols),
   row |-> ToCellIndex(y, sg.minY, sg.cellSize, sg.numRows)]

Occurrences(s, e) == Cardinality({ k \in 1..Len(s) : s[k] = e })

\* C17: after a grid update(entities), cell (col, row) holds entity e exactly
\* when col and row lie between the cell of e's min corner and the cell of
\* e's max corner, and it holds e at most once.
C17_CellMembership ==
  gridLife = "updated" =>
    \A c \in Cells(spatialGrid) : \A e \in Range(entities) :
      LET lo == ToCell(spatialGrid, e.aabb.min.x, e.aabb.min.y)
          hi == ToCell(spatialGrid, e.aabb.max.x, e.aabb.max.y)
          cell == spatialGrid.grid[c[1]][c[2]]
      IN /\ (e \in Range(cell)) <=> (/\ lo.col <= c[1] /\ c[1] <= hi.col
                                     /\ lo.row <= c[2] /\ c[2] <= hi.row)
         /\ Occurrences(cell, e) <= 1

\* A 2 x 2 grid holding one entity in all four cells, one in a single cell
\* and one, lying below the origin, clamped into cell (0, 0).
C17_Witness ==
  /\ gridLife = "updated"
  /\ Cardinality(Cells(spatialGrid)) = 4
  /\ \E e, f, g \in Range(entities) :
       /\ CellsOf(spatialGrid, e) = Cells(spatialGrid)
       /\ Cardinality(CellsOf(spatialGrid, f)) = 1 /\ ~OutsideWorld(spatialGrid, f.aabb)
       /\ CellsOf(spatialGrid, g) = {<<0, 0>>} /\ g.aabb.max.x < spatialGrid.minX

\* count is the ceiling of extent / size: the least number of cells of that
\* size that cover the extent.
IsCeiling(count, extent, size) ==
  /\ count * size >= extent
  /\ (count - 1) * size < extent

\* Coordinates probed on both sides of every configured world.
ProbeCoords == (-(3 * MaxCoord))..(4 * MaxCoord)

\* C18: a constructed grid has numCols = ceil((maxX - minX) / cellSize) >= 1
\* and numRows likewise; update and queryPairs never change them; worldToGrid
\* returns a cell inside the grid for coordinates inside or outside the world,
\* and the cell array keeps the shape numCols x numRows.
C18_GridShape ==
  /\ [](gridLife # "none" =>
          /\ IsCeiling(spatialGrid.numCols, spatialGrid.maxX - spatialGrid.minX,
                       spatialGrid.cellSize)
          /\ IsCeiling(spatialGrid.numRows, spatialGrid.maxY - spatialGrid.minY,
                       spatialGrid.cellSize)
          /\ spatialGrid.numCols >= 1 /\ spatialGrid.numRows >= 1
          /\ DOMAIN spatialGrid.grid = 0..(spatialGrid.numCols - 1)
          /\ \A col \in DOMAIN spatialGrid.grid :
               DOMAIN spatialGrid.grid[col] = 0..(spatialGrid.numRows - 1)
          /\ \A x \in ProbeCoords : \A y \in {x, -x} :
               /\ worldToGrid(spatialGrid, x, y).col \in 0..(spatialGrid.numCols - 1)
               /\ worldToGrid(spatialGrid, x, y).row \in 0..(spatialGrid.numRows - 1))
  /\ [][(gridLife # "none" /\ gridLife' # "none") =>
          /\ spatialGrid'.numCols = spatialGrid.numCols
          /\ spatialGrid'.numRows = spatialGrid.numRows]_vars

\* A 2 x 2 grid, queried after an update with one entity below the world's
\* origin and one beyond its far corner, held by the two corner cells.
C18_Witness ==
  /\ gridLife = "updated" /\ gridQueries >= 1
  /\ spatialGrid.numCols = 2 /\ spatialGrid.numRows = 2
  /\ \E e, f \in Range(entities) :
       /\ e.aabb.max.x < spatialGrid.minX /\ e.aabb.max.y < spatialGrid.minY
       /\ f.aabb.min.x > spatialGrid.maxX /\ f.aabb.min.y > spatialGrid.maxY
       /\ CellsOf(spatialGrid, e) = {<<0, 0>>}
       /\ CellsOf(spatialGrid, f) = {<<1, 1>>}

\* The object is what it was, except possibly for its collisionTests field.
SameButCounter(before, after) ==
  /\ DOMAIN after = DOMAIN before
  /\ \A f \in DOMAIN before \ {"collisionTests"} : after[f] = before[f]

\* C19: queryPairs() changes nothing of its detector but collisionTests: the
\* brute-force entity list, the grid configuration and cell contents, and the
\* ids and boxes of the entities are what they were before the call.
C19_QueryFrame ==
  [][/\ (bfQueries' = bfQueries + 1) =>
          /\ SameButCounter(bruteForce, bruteForce')
          /\ entities' = entities
          /\ \A m \in 1..Len(bfPairs') : {bfPairs'[m][1], bfPairs'[m][2]} \subseteq Range(bruteForce.entities)
     /\ (gridQueries' = gridQueries + 1) =>
          /\ SameButCounter(spatialGrid, spatialGrid')
          /\ entities' = entities
          /\ \A m \in 1..Len(gridPairs') :
               {gridPairs'[m][1], gridPairs'[m][2]} \subseteq Range(entities)]_vars

\* A second grid query in a row on populated cells: the first one changed the
\* counter and returned a pair, and the cells still hold the three entities.
C19_Witness ==
  /\ gridLife = "updated" /\ gridQueries = 2
  /\ Len(entities) = 3
  /\ \A e \in Range(entities) : CellsOf(spatialGrid, e) # {}
  /\ spatialGrid.collisionTests >= 2
  /\ Len(gridPairs) >= 1

\* C20: update() leaves collisionTests as it was: after a query followed by an
\* update it still holds the count of that query, and it is 0 as long as no
\* query has been made.
C20_UpdateKeepsCounter ==
  /\ [](/\ pc \in {"update_grid", "query_brute"} => bruteForce.collisionTests = 0
        /\ pc \in {"query_brute", "query_grid"} => spatialGrid.collisionTests = 0)
  /\ [][/\ (bfLife' = "updated" /\ bfQueries' = 0) =>
             bruteForce'.collisionTests = bruteForce.collisionTests
        /\ (gridLife' = "updated" /\ gridQueries' = 0) =>
             spatialGrid'.collisionTests = spatialGrid.collisionTests]_vars

\* Brute force was queried on three entities and then updated with a single
\* one: the counter still reads the three tests of that query.
C20_Witness ==
  /\ bfLife = "updated" /\ bfQueries = 0
  /\ Len(bruteForce.entities) = 1
  /\ bruteForce.collisionTests = 3

\* C21: after update(entities), adding, removing or reordering elements of
\* the caller's array does not change what queryPairs() returns or counts,
\* for either detector; a query repeated after the edit returns what the
\* query before it returned.
C21_CallerEditsUnseen ==
  [][/\ (entities' # entities) =>
          /\ bfLife = "updated" =>
               BruteForceQueryPairs(bruteForce') = BruteForceQueryPairs(bruteForce)
          /\ gridLife = "updated" =>
               SpatialGridQueryPairs(spatialGrid') = SpatialGridQueryPairs(spatialGrid)
     /\ (pc = "edited" /\ bfQueries >= 1 /\ bfQueries' = bfQueries + 1) =>
          /\ bfPairs' = bfPairs
          /\ bruteForce'.collisionTests = bruteForce.collisionTests
     /\ (pc = "edited" /\ gridQueries >= 1 /\ gridQueries' = gridQueries + 1) =>
          /\ gridPairs' = gridPairs
          /\ spatialGrid'.collisionTests = spatialGrid.collisionTests]_vars

\* Brute force was updated with three entities, the caller then removed one
\* of its array, and the query made afterwards still tested three pairs and
\* returned a pair with the removed entity.
C21_Witness ==
  /\ pc = "edited"
  /\ bfLife = "updated" /\ bfQueries >= 1
  /\ Len(bruteForce.entities) = 3 /\ Len(entities) = 2
  /\ bruteForce.collisionTests = 3
  /\ \E m \in 1..Len(bfPairs) : ~({bfPairs[m][1], bfPairs[m][2]} \subseteq Range(entities))

\* C22: every updateSimulation() frame calls the grid's update and then its
\* queryPairs; brute force is updated and then queried exactly on every 10th
\* frame, where bruteForceFrameCounter is reset to 0; the counter stays in
\* 0..9 after every frame, and brute force is queried only right after an
\* update with the current entities.
C22_FrameSchedule ==
  /\ [](pc = "web" =>
          /\ bruteForceFrameCounter \in 0..(BRUTE_FORCE_UPDATE_INTERVAL - 1)
          /\ bruteForceFrameCounter = frames % BRUTE_FORCE_UPDATE_INTERVAL
          /\ \A k \in 1..Len(calls) :
               calls[k] = "bruteForce.queryPairs" =>
                 (k > 1 /\ calls[k - 1] = "bruteForce.update"))
  /\ [][(frames' = frames + 1) =>
          /\ SubSeq(calls', 1, 2) = <<"spatialGrid.update", "spatialGrid.queryPairs">>
          /\ spatialGrid'.grid = SpatialGridUpdate(spatialGrid', entities').grid
          /\ gridTests' = spatialGrid'.collisionTests
          /\ IF frames' % BRUTE_FORCE_UPDATE_INTERVAL = 0
             THEN /\ SubSeq(calls', 3, Len(calls')) =
                       <<"bruteForce.update", "bruteForce.queryPairs">>
                  /\ bruteForceFrameCounter' = 0
                  /\ bruteForceTests' = bruteForce'.collisionTests
                  /\ 2 * bruteForceTests' = Len(entities') * (Len(entities') - 1)
             ELSE /\ Len(calls') = 2
                  /\ bruteForceFrameCounter' = bruteForceFrameCounter + 1
                  /\ bruteForceTests' = bruteForceTests
                  /\ bruteForce'.collisionTests = bruteForce.collisionTests]_vars

\* The twentieth frame has just run brute force on two entities; the entity
\* count had been changed from one to two since the tenth frame.
C22_Witness ==
  /\ pc = "web"
  /\ frames = 2 * BRUTE_FORCE_UPDATE_INTERVAL
  /\ bruteForceFrameCounter = 0
  /\ Len(calls) = 4
  /\ Len(entities) = 2
  /\ bruteForceTests = 1

Width(box) == box.max.x - box.min.x

Height(box) == box.max.y - box.min.y

InsideWorld(box) ==
  /\ 0 <= box.min.x /\ box.min.x <= box.max.x /\ box.max.x <= WORLD_WIDTH
  /\ 0 <= box.min.y /\ box.min.y <= box.max.y /\ box.max.y <= WORLD_HEIGHT

\* C23: in the web simulation every entity keeps the width and height it was
\* created with, and after every updateSimulation() step its box lies inside
\* the world rectangle with min <= max, so the entities handed to update()
\* are well-formed and within the grid's bounds.
C23_BounceKeepsBoxes ==
  (pc = "web" /\ frames >= 1) =>
    \A k \in 1..Len(entities) :
      /\ Width(entities[k].aabb) = Width(created[k].aabb)
      /\ Height(entities[k].aabb) = Height(created[k].aabb)
      /\ InsideWorld(entities[k].aabb)

====
